---------------------------- MODULE Spec2Model ----------------------------
(***************************************************************************)
(* The agify client: NewClient and its options, the request built by       *)
(* PredictWithCountry and BatchPredictWithCountry, the classification of   *)
(* the transport's answer by get, and the decoding of the body.            *)
(*                                                                         *)
(* Strings are TLA+ strings.  A base URL is a record saying whether        *)
(* url.Parse accepts it, its scheme/host/path part and the pairs of its    *)
(* query string.  url.Values is a function from the parameter keys to the  *)
(* sequence of values added under the key, which is also what the server   *)
(* reads back from the encoded query.  A response body is the JSON value   *)
(* its bytes spell, or "invalid" when they are no JSON text; an object is  *)
(* the sequence of its members in document order, a member's key is the    *)
(* sequence of its characters, and a number says how its literal is        *)
(* written.                                                                *)
(***************************************************************************)
EXTENDS Integers, Sequences, FiniteSets, TLC

VARIABLES client, constructed, pc, call, sent, resp, frame, ret

vars == <<client, constructed, pc, call, sent, resp, frame, ret>>

(***************************************************************************)
(* Bounds of the model.                                                    *)
(***************************************************************************)
\* longest input sequence of a batch call
MaxNames == 2
\* most options handed to NewClient
MaxOpts == 3
\* callers sharing one client in SpecShared
NumCallers == 2

\* http.StatusOK
StatusOK == 200

Callers == 1..NumCallers

(***************************************************************************)
(* Values                                                                  *)
(***************************************************************************)
Nil == [kind |-> "nil"]
Ptr(v) == [kind |-> "ptr", val |-> v]

NoErr == [kind |-> "nil"]
TransportErr == [kind |-> "transport"]
ReadErr == [kind |-> "read"]
DecodeErr == [kind |-> "decode"]
\* errors.New(msg)
ServiceErr(msg) == [kind |-> "service", msg |-> msg]

\* the handle behind the package-level http.Get
DefaultClient == [id |-> "http.DefaultClient", timeout |-> 0]
\* the &http.Client{} that NewClient makes
FreshHttpClient == [id |-> "&http.Client{}", timeout |-> 0]
\* a handle a caller injects with WithClient
InjectedHttpClient == [id |-> "injected", timeout |-> 5]

Keys == {"apikey", "country_id", "name", "name[]"}

DefaultBaseUrl ==
  [wellFormed |-> TRUE, endpoint |-> "https://api.agify.io", rawQuery |-> <<>>]
ServerUrl ==
  [wellFormed |-> TRUE, endpoint |-> "http://127.0.0.1:8080", rawQuery |-> <<>>]
ServerUrlWithCountry ==
  [wellFormed |-> TRUE, endpoint |-> "http://127.0.0.1:8080",
   rawQuery |-> << <<"country_id", "SE">> >>]
ServerUrlWithNames ==
  [wellFormed |-> TRUE, endpoint |-> "http://127.0.0.1:8080",
   rawQuery |-> << <<"name[]", "zed">> >>]
\* a string url.Parse rejects, such as "http://[::1"
MalformedUrl ==
  [wellFormed |-> FALSE, endpoint |-> "http://[::1", rawQuery |-> <<>>]

(***************************************************************************)
(* Client configuration                                                    *)
(***************************************************************************)
WithUrl(baseUrl) == [baseUrl |-> baseUrl, opt |-> "WithUrl"]
WithApiKey(apiKey) == [opt |-> "WithApiKey", apiKey |-> apiKey]
WithClient(httpClient) == [opt |-> "WithClient", httpClient |-> httpClient]

\* opt(defaults)
ApplyOption(d, o) ==
  CASE o.opt = "WithUrl" -> [d EXCEPT !.baseUrl = o.baseUrl]
    [] o.opt = "WithApiKey" -> [d EXCEPT !.apiKey = o.apiKey]
    [] o.opt = "WithClient" -> [d EXCEPT !.http = o.httpClient]

RECURSIVE ApplyOptions(_, _)
ApplyOptions(d, opts) ==
  IF opts = <<>> THEN d
  ELSE ApplyOptions(ApplyOption(d, Head(opts)), Tail(opts))

NewClient(opts) ==
  LET defaults == ApplyOptions([baseUrl |-> DefaultBaseUrl, apiKey |-> "",
                                http |-> FreshHttpClient], opts)
  IN  [baseUrl |-> defaults.baseUrl, apiKey |-> defaults.apiKey,
       http |-> defaults.http]

(***************************************************************************)
(* Request construction                                                    *)
(***************************************************************************)
\* url.Parse: a nil URL and an error for a string it rejects
urlParse(u) ==
  IF u.wellFormed
  THEN [err |-> FALSE, url |-> [endpoint |-> u.endpoint, RawQuery |-> u.rawQuery]]
  ELSE [err |-> TRUE, url |-> Nil]

\* Values.Add
Add(values, key, value) == [values EXCEPT ![key] = Append(@, value)]

RECURSIVE ParseQuery(_)
ParseQuery(pairs) ==
  IF pairs = <<>> THEN [k \in Keys |-> <<>>]
  ELSE LET n == Len(pairs)
       IN  Add(ParseQuery(SubSeq(pairs, 1, n - 1)), pairs[n][1], pairs[n][2])

\* URL.Query
Query(url) == ParseQuery(url.RawQuery)

RECURSIVE AddAll(_, _, _)
AddAll(values, key, names) ==
  IF names = <<>> THEN values
  ELSE AddAll(Add(values, key, Head(names)), key, Tail(names))

\* the apikey parameter of both request shapes
addApiKey(cl, values) ==
  IF cl.apiKey # "" THEN Add(values, "apikey", cl.apiKey) ELSE values

predictValuesAlwaysCountry(cl, url, name, country) ==
  addApiKey(cl, Add(Add(Query(url), "name", name), "country_id", country))

\* the query PredictWithCountry builds
predictValues(cl, url, name, country) ==
  LET v1 == Add(Query(url), "name", name)
      v2 == IF country # "" THEN Add(v1, "country_id", country) ELSE v1
  IN  addApiKey(cl, v2)

batchValuesOmitsEmptyCountry(cl, url, names, country) ==
  LET v1 == IF country # "" THEN Add(Query(url), "country_id", country)
            ELSE Query(url)
  IN  addApiKey(cl, AddAll(v1, "name[]", names))

\* the query BatchPredictWithCountry builds
batchValues(cl, url, names, country) ==
  LET v1 == Add(Query(url), "country_id", country)
      v2 == AddAll(v1, "name[]", names)
  IN  addApiKey(cl, v2)

\* the pairs Values.Encode writes for one key, in the order they were added
PairsUnder(values, key) ==
  [i \in 1..Len(values[key]) |-> <<key, values[key][i]>>]

\* Values.Encode: the keys in sorted order
Encode(values) ==
  PairsUnder(values, "apikey") \o PairsUnder(values, "country_id")
  \o PairsUnder(values, "name") \o PairsUnder(values, "name[]")

\* the GET that get issues for url.String(), through the package-level
\* http.Get: url.RawQuery is the encoded values, and query is what the server
\* reads back from it
Request(url, values) ==
  [endpoint |-> url.endpoint, RawQuery |-> Encode(values), method |-> "GET",
   via |-> DefaultClient, query |-> ParseQuery(Encode(values))]

\* the receiver after a request was built: url.Parse hands out a URL of its
\* own and RawQuery is assigned on that one, the client's fields are only read
clientAfterBuild(cl, url, values) == cl

(***************************************************************************)
(* Decoding: json.Unmarshal into the three target types                    *)
(***************************************************************************)
JInvalid == [t |-> "invalid"]
JNull == [t |-> "null"]
JStr(s) == [t |-> "str", s |-> s]
\* the number n written as an integer literal within the range of int
JNum(n) == [n |-> n, t |-> "num", form |-> "int"]
\* the number n written with a fraction or an exponent, such as 70.0 or 7e1
JFrac(n) == [n |-> n, t |-> "num", form |-> "frac"]
\* an integer literal beyond the range of int, such as 9223372036854775808
JBig(lit) == [t |-> "num", form |-> "big", lit |-> lit]
\* an object: its members <<key, value>> in document order
JObj(f) == [t |-> "obj", f |-> f]
JArr(a) == [t |-> "arr", a |-> a]

\* the json tags of Prediction and errorResponse
nameKey == <<"n", "a", "m", "e">>
ageKey == <<"a", "g", "e">>
countKey == <<"c", "o", "u", "n", "t">>
countryIdKey == <<"c", "o", "u", "n", "t", "r", "y", "_", "i", "d">>
errorKey == <<"e", "r", "r", "o", "r">>

Lowers ==
  <<"a", "b", "c", "d", "e", "f", "g", "h", "i", "j", "k", "l", "m",
    "n", "o", "p", "q", "r", "s", "t", "u", "v", "w", "x", "y", "z">>
Uppers ==
  <<"A", "B", "C", "D", "E", "F", "G", "H", "I", "J", "K", "L", "M",
    "N", "O", "P", "Q", "R", "S", "T", "U", "V", "W", "X", "Y", "Z">>

\* json's key matching folds the letter case of ASCII letters
foldRune(ch) ==
  IF \E i \in 1..Len(Lowers) : Lowers[i] = ch
  THEN Uppers[CHOOSE i \in 1..Len(Lowers) : Lowers[i] = ch]
  ELSE ch
foldName(key) == [i \in 1..Len(key) |-> foldRune(key[i])]

\* a JSON value can be stored in a Go string ("str") or a Go int ("int"):
\* an int takes only a literal strconv.ParseInt accepts and int holds
LiteralFits(v, t) ==
  IF t = "int" THEN v.t = "num" /\ v.form = "int" ELSE v.t = t

\* what json.Unmarshal leaves in the target, and whether it returned an error
Unmarshalled(val, err) == [val |-> val, err |-> err]

\* The members of an object decoded in document order into the struct field
\* tagged k, a Go value of type t: a member whose key is the tag up to letter
\* case is stored over what an earlier one left, a null leaves the field as it
\* is, and a value the field cannot take is skipped and reported as the error.
\* val is the JSON value the field ends up holding, JNull for none.
RECURSIVE Stored(_, _, _)
Stored(o, k, t) ==
  IF o = <<>> THEN Unmarshalled(JNull, FALSE)
  ELSE LET n == Len(o)
           before == Stored(SubSeq(o, 1, n - 1), k, t)
           key == o[n][1]
           v == o[n][2]
       IN  IF foldName(key) # foldName(k) \/ v.t = "null" THEN before
           ELSE IF LiteralFits(v, t) THEN Unmarshalled(v, before.err)
           ELSE Unmarshalled(before.val, TRUE)

FieldFits(o, k, t) == ~Stored(o, k, t).err
FieldStr(o, k) ==
  LET v == Stored(o, k, "str").val IN IF v.t = "str" THEN v.s ELSE ""
FieldInt(o, k) ==
  LET v == Stored(o, k, "int").val IN IF v.t = "num" THEN v.n ELSE 0

ZeroPrediction == [Name |-> "", Age |-> 0, Count |-> 0, Country |-> ""]

PredictionFits(o) ==
  /\ FieldFits(o, nameKey, "str")
  /\ FieldFits(o, ageKey, "int")
  /\ FieldFits(o, countKey, "int")
  /\ FieldFits(o, countryIdKey, "str")

unmarshalPredictionSwapped(j) ==
  CASE j.t = "null" -> Unmarshalled(ZeroPrediction, FALSE)
    [] j.t = "obj" ->
         Unmarshalled([Name |-> FieldStr(j.f, nameKey),
                       Age |-> FieldInt(j.f, countKey),
                       Count |-> FieldInt(j.f, ageKey),
                       Country |-> FieldStr(j.f, countryIdKey)],
                      ~PredictionFits(j.f))
    [] OTHER -> Unmarshalled(ZeroPrediction, TRUE)

\* json.Unmarshal(body, &prediction)
unmarshalPrediction(j) ==
  CASE j.t = "null" -> Unmarshalled(ZeroPrediction, FALSE)
    [] j.t = "obj" ->
         Unmarshalled([Name |-> FieldStr(j.f, nameKey),
                       Age |-> FieldInt(j.f, ageKey),
                       Count |-> FieldInt(j.f, countKey),
                       Country |-> FieldStr(j.f, countryIdKey)],
                      ~PredictionFits(j.f))
    [] OTHER -> Unmarshalled(ZeroPrediction, TRUE)

\* json.Unmarshal(body, &predictions)
unmarshalPredictions(j) ==
  CASE j.t = "null" -> Unmarshalled(<<>>, FALSE)
    [] j.t = "arr" ->
         Unmarshalled([i \in 1..Len(j.a) |-> unmarshalPrediction(j.a[i]).val],
                      \E i \in 1..Len(j.a) : unmarshalPrediction(j.a[i]).err)
    [] OTHER -> Unmarshalled(<<>>, TRUE)

\* json.Unmarshal(body, &resp) for the errorResponse
unmarshalErrorResponse(j) ==
  CASE j.t = "null" -> Unmarshalled([Error |-> ""], FALSE)
    [] j.t = "obj" ->
         Unmarshalled([Error |-> FieldStr(j.f, errorKey)],
                      ~FieldFits(j.f, errorKey, "str"))
    [] OTHER -> Unmarshalled([Error |-> ""], TRUE)

(***************************************************************************)
(* Transport and status classification                                     *)
(***************************************************************************)
\* Header.Get
HeaderGet(header, key) == IF key \in DOMAIN header THEN header[key] ELSE ""

\* a response as http.Get hands it over: the status and the headers, the
\* body still to be read
ResponseHead(status, header) ==
  [kind |-> "headers", header |-> header, status |-> status]

\* a response as get sees it after io.ReadAll: the status, the headers, the
\* bytes io.ReadAll got and whether it got them all
Response(status, header, body, readOk) ==
  [kind |-> "response", header |-> header, status |-> status, body |-> body,
   readOk |-> readOk]

\* the RateLimit get builds from the response
rateLimitOf(r) ==
  Ptr([Limit |-> HeaderGet(r.header, "X-Rate-Limit-Limit"),
       Remaining |-> HeaderGet(r.header, "X-Rate-Limit-Remaining"),
       Reset |-> HeaderGet(r.header, "X-Rate-Reset")])

clientKeepsRateLimit(cl, frames, c, rateLimit) ==
  [client |-> [f \in DOMAIN cl \cup {"rateLimit"} |->
                 IF f = "rateLimit" THEN rateLimit ELSE cl[f]],
   frame |-> [d \in Callers |-> rateLimit]]

\* The client and the callers' frames once caller c's get has built its
\* RateLimit: rateLimit is a local variable of that invocation of get, so it
\* is kept for c alone, and no field of the client is assigned.
afterHeaders(cl, frames, c, rateLimit) ==
  [client |-> cl, frame |-> [frames EXCEPT ![c] = rateLimit]]

\* the three values get returns
Got(body, rateLimit, err) == [err |-> err, body |-> body, rateLimit |-> rateLimit]

\* the three values a Predict or BatchPredict call returns
Return(result, rateLimit, err) ==
  [err |-> err, rateLimit |-> rateLimit, result |-> result]

getRateLimitOnSuccessOnly(r, rateLimit) ==
  IF r.kind = "fail" THEN Got(Nil, Nil, TransportErr)
  ELSE IF r.status # StatusOK
       THEN LET d == unmarshalErrorResponse(r.body)
            IN  IF d.err THEN Got(Nil, Nil, DecodeErr)
                ELSE Got(Nil, Nil, ServiceErr(d.val.Error))
       ELSE IF ~r.readOk THEN Got(Nil, rateLimit, ReadErr)
            ELSE Got(Ptr(r.body), rateLimit, NoErr)

getReadErrorFirst(r, rateLimit) ==
  IF r.kind = "fail" THEN Got(Nil, Nil, TransportErr)
  ELSE IF ~r.readOk THEN Got(Nil, rateLimit, ReadErr)
       ELSE IF r.status # StatusOK
            THEN LET d == unmarshalErrorResponse(r.body)
                 IN  IF d.err THEN Got(Nil, rateLimit, DecodeErr)
                     ELSE Got(Nil, rateLimit, ServiceErr(d.val.Error))
            ELSE Got(Ptr(r.body), rateLimit, NoErr)

\* get, from the answer of http.Get on: r is the transport's failure, or the
\* response with the bytes io.ReadAll got and whether it read them all, and
\* rateLimit is the local get built from the headers before it read the body
get(r, rateLimit) ==
  IF r.kind = "fail" THEN Got(Nil, Nil, TransportErr)
  ELSE IF r.status # StatusOK
       THEN LET d == unmarshalErrorResponse(r.body)
            IN  IF d.err THEN Got(Nil, rateLimit, DecodeErr)
                ELSE Got(Nil, rateLimit, ServiceErr(d.val.Error))
       ELSE IF ~r.readOk THEN Got(Nil, rateLimit, ReadErr)
            ELSE Got(Ptr(r.body), rateLimit, NoErr)

\* what PredictWithCountry returns once get has returned
predictReturn(r, rateLimit) ==
  LET g == get(r, rateLimit)
  IN  IF g.err.kind # "nil" THEN Return(Nil, g.rateLimit, g.err)
      ELSE LET d == unmarshalPrediction(g.body.val)
           IN  IF d.err THEN Return(Nil, g.rateLimit, DecodeErr)
               ELSE Return(Ptr(d.val), g.rateLimit, NoErr)

\* what BatchPredictWithCountry returns once get has returned
batchReturn(r, rateLimit) ==
  LET g == get(r, rateLimit)
  IN  IF g.err.kind # "nil" THEN Return(Nil, g.rateLimit, g.err)
      ELSE LET d == unmarshalPredictions(g.body.val)
           IN  IF d.err THEN Return(Nil, g.rateLimit, DecodeErr)
               ELSE Return(Ptr(d.val), g.rateLimit, NoErr)

(***************************************************************************)
(* State                                                                   *)
(***************************************************************************)
NoCall == [op |-> "none"]
NoResponse == [kind |-> "none"]
NoReturn == Return(Nil, Nil, NoErr)

SingleOps == {"Predict", "PredictWithCountry"}
BatchOps == {"BatchPredict", "BatchPredictWithCountry"}

\* an unrecovered panic ends the program
Crashed == \E c \in Callers : pc[c] = "panicked"

InitWith(optionLists) ==
  /\ client \in {NewClient(opts) : opts \in optionLists}
  /\ constructed = client
  /\ pc = [c \in Callers |-> "idle"]
  /\ call = [c \in Callers |-> NoCall]
  /\ sent = [c \in Callers |-> <<>>]
  /\ resp = [c \in Callers |-> NoResponse]
  /\ frame = [c \in Callers |-> Nil]
  /\ ret = [c \in Callers |-> NoReturn]

\* A call up to the point where get waits for http.Get: the URL is parsed with
\* its error dropped, so a rejected base URL leaves a nil *URL and url.Query()
\* dereferences it; otherwise the query is built and the one GET is issued.
Start(c, theCall) ==
  /\ ~Crashed
  /\ pc[c] = "idle"
  /\ call' = [call EXCEPT ![c] = theCall]
  /\ resp' = [resp EXCEPT ![c] = NoResponse]
  /\ frame' = [frame EXCEPT ![c] = Nil]
  /\ ret' = [ret EXCEPT ![c] = NoReturn]
  /\ LET p == urlParse(client.baseUrl)
         values == IF theCall.op \in SingleOps
                   THEN predictValues(client, p.url, theCall.name,
                                      theCall.country)
                   ELSE batchValues(client, p.url, theCall.names,
                                    theCall.country)
     IN  IF p.err
         THEN /\ pc' = [pc EXCEPT ![c] = "panicked"]
              /\ sent' = [sent EXCEPT ![c] = <<>>]
              /\ client' = client
         ELSE /\ pc' = [pc EXCEPT ![c] = "waiting"]
              /\ sent' = [sent EXCEPT ![c] = <<Request(p.url, values)>>]
              /\ client' = clientAfterBuild(client, p.url, values)
  /\ UNCHANGED constructed

PredictWithCountryAs(c, op, name, country) ==
  Start(c, [name |-> name, country |-> country, op |-> op])

BatchPredictWithCountryAs(c, op, names, country) ==
  Start(c, [names |-> names, country |-> country, op |-> op])

\* The four operations; a caller is in one call at a time.
PredictWithCountry(c, name, country) ==
  /\ pc[c] = "idle"
  /\ PredictWithCountryAs(c, "PredictWithCountry", name, country)

Predict(c, name) ==
  /\ pc[c] = "idle"
  /\ PredictWithCountryAs(c, "Predict", name, "")

BatchPredictWithCountry(c, names, country) ==
  /\ pc[c] = "idle"
  /\ BatchPredictWithCountryAs(c, "BatchPredictWithCountry", names, country)

BatchPredict(c, names) ==
  /\ pc[c] = "idle"
  /\ BatchPredictWithCountryAs(c, "BatchPredict", names, "")

\* The rest of the call, from the transport's answer to the return.
Finish(c, r) ==
  /\ ~Crashed
  /\ pc[c] \in {"waiting", "reading"}
  /\ resp' = [resp EXCEPT ![c] = r]
  /\ ret' = [ret EXCEPT ![c] =
               IF call[c].op \in SingleOps THEN predictReturn(r, frame[c])
               ELSE batchReturn(r, frame[c])]
  /\ pc' = [pc EXCEPT ![c] = "returned"]
  /\ UNCHANGED <<client, constructed, call, sent, frame>>

\* http.Get returns an error: no response was received
TransportFails(c) ==
  /\ pc[c] = "waiting"
  /\ Finish(c, [kind |-> "fail"])

\* http.Get returns a response: the status and the headers are in, get
\* builds its RateLimit from them and goes on to block in io.ReadAll
ResponseArrives(c, status, header) ==
  /\ ~Crashed
  /\ pc[c] = "waiting"
  /\ resp' = [resp EXCEPT ![c] = ResponseHead(status, header)]
  /\ LET after == afterHeaders(client, frame, c,
                                rateLimitOf(ResponseHead(status, header)))
     IN  client' = after.client /\ frame' = after.frame
  /\ pc' = [pc EXCEPT ![c] = "reading"]
  /\ UNCHANGED <<constructed, call, sent, ret>>

\* io.ReadAll returns, with the whole body or with the bytes it got before
\* the read failed; get classifies the response and the call returns
ReadAll(c, body, readOk) ==
  /\ pc[c] = "reading"
  /\ Finish(c, Response(resp[c].status, resp[c].header, body, readOk))

\* The caller has its three return values and goes on to its next call.
CallerContinues(c) ==
  /\ ~Crashed
  /\ pc[c] = "returned"
  /\ pc' = [pc EXCEPT ![c] = "idle"]
  /\ call' = [call EXCEPT ![c] = NoCall]
  /\ sent' = [sent EXCEPT ![c] = <<>>]
  /\ resp' = [resp EXCEPT ![c] = NoResponse]
  /\ frame' = [frame EXCEPT ![c] = Nil]
  /\ ret' = [ret EXCEPT ![c] = NoReturn]
  /\ UNCHANGED <<client, constructed>>

(***************************************************************************)
(* Inputs                                                                  *)
(***************************************************************************)
SeqsUpTo(S, n) == UNION {[1..k -> S] : k \in 0..n}

Options ==
  {WithUrl(u) : u \in {ServerUrl, ServerUrlWithCountry, ServerUrlWithNames,
                       MalformedUrl}}
  \cup {WithApiKey(k) : k \in {"test-key"}}
  \cup {WithClient(h) : h \in {InjectedHttpClient}}
OptionLists == SeqsUpTo(Options, MaxOpts)

Names == {"", "michael"}
Countries == {"", "US"}
NameLists == SeqsUpTo({"michael", "jane"}, MaxNames)

Statuses == {200, 401, 422, 429}
NoHeaders == <<>>
TestHeaders ==
  [h \in {"X-Rate-Limit-Limit", "X-Rate-Limit-Remaining", "X-Rate-Reset"} |->
     CASE h = "X-Rate-Limit-Limit" -> "1000"
       [] h = "X-Rate-Limit-Remaining" -> "728"
       [] h = "X-Rate-Reset" -> "15281"]
Headers == {NoHeaders, TestHeaders}

Michael ==
  JObj(<< <<nameKey, JStr("michael")>>, <<ageKey, JNum(70)>>,
          <<countKey, JNum(875)>>, <<countryIdKey, JStr("US")>> >>)
Jane ==
  JObj(<< <<nameKey, JStr("jane")>>, <<ageKey, JNum(36)>>,
          <<countKey, JNum(35010)>> >>)
InvalidApiKey == JObj(<< <<errorKey, JStr("Invalid API key")>> >>)
\* {"NAME":"jane","Age":36,"name":"michael","error":"no","Error":"boom",
\*  "age":null}
MixedCase ==
  JObj(<< << <<"N", "A", "M", "E">>, JStr("jane")>>,
          << <<"A", "g", "e">>, JNum(36)>>,
          <<nameKey, JStr("michael")>>,
          <<errorKey, JStr("no")>>,
          << <<"E", "r", "r", "o", "r">>, JStr("boom")>>,
          <<ageKey, JNull>> >>)
Bodies ==
  { JInvalid, JNull, JObj(<<>>), Michael, Jane, MixedCase,
    JObj(<< <<nameKey, JStr("jane")>>, <<ageKey, JStr("old")>> >>),
    JObj(<< << <<"A", "g", "e">>, JStr("old")>>, <<ageKey, JNum(36)>> >>),
    JObj(<< <<nameKey, JStr("jane")>>, <<ageKey, JFrac(70)>> >>),
    JObj(<< <<countKey, JBig("9223372036854775808")>> >>),
    InvalidApiKey,
    JObj(<< <<errorKey, JNum(5)>> >>),
    JObj(<< << <<"E", "R", "R", "O", "R">>, JNum(5)>>,
            <<errorKey, JStr("late")>> >>),
    JArr(<<>>), JArr(<<Michael, Jane>>), JArr(<<Jane, Michael, JNull>>),
    JArr(<<Michael, JStr("jane")>>) }

Init == InitWith(OptionLists)

Next ==
  \E c \in {1} :
    \/ \E name \in Names : Predict(c, name)
    \/ \E name \in Names, country \in Countries :
         PredictWithCountry(c, name, country)
    \/ \E names \in NameLists : BatchPredict(c, names)
    \/ \E names \in NameLists, country \in Countries :
         BatchPredictWithCountry(c, names, country)
    \/ TransportFails(c)
    \/ \E status \in Statuses, header \in Headers :
         ResponseArrives(c, status, header)
    \/ \E body \in Bodies, readOk \in BOOLEAN : ReadAll(c, body, readOk)
    \/ CallerContinues(c)

\* one caller, the full range of inputs and answers
Spec == Init /\ [][Next]_vars

SharedOptionLists == {<<WithUrl(ServerUrl)>>, <<WithUrl(MalformedUrl)>>}
\* the answers of the test servers: a 200 with the rate-limit headers, a 401
\* without them
SharedAnswers == {<<200, TestHeaders>>, <<401, NoHeaders>>}
SharedBodies == {Michael, JArr(<<Michael, Jane>>), InvalidApiKey}

InitShared == InitWith(SharedOptionLists)

NextShared ==
  \E c \in Callers :
    \/ Predict(c, "michael")
    \/ PredictWithCountry(c, "michael", "US")
    \/ BatchPredict(c, <<"michael", "jane">>)
    \/ BatchPredictWithCountry(c, <<"michael">>, "US")
    \/ TransportFails(c)
    \/ \E answer \in SharedAnswers : ResponseArrives(c, answer[1], answer[2])
    \/ \E body \in SharedBodies : ReadAll(c, body, TRUE)
    \/ CallerContinues(c)

\* several callers sharing one client, their calls interleaved
SpecShared == InitShared /\ [][NextShared]_vars

(***************************************************************************)
(* Properties                                                              *)
(***************************************************************************)
Returned(c) == pc[c] = "returned"
GotResponse(c) == resp[c].kind = "response"
Issued(c) == sent[c] # <<>>

\* the three header values as the response carries them, "" for an absent one
HeadersAsSent(h) ==
  [Limit |-> IF "X-Rate-Limit-Limit" \in DOMAIN h
             THEN h["X-Rate-Limit-Limit"] ELSE "",
   Remaining |-> IF "X-Rate-Limit-Remaining" \in DOMAIN h
                 THEN h["X-Rate-Limit-Remaining"] ELSE "",
   Reset |-> IF "X-Rate-Reset" \in DOMAIN h THEN h["X-Rate-Reset"] ELSE ""]

\* the values the base URL's own query string holds under key k, in order
RECURSIVE ValuesUnder(_, _)
ValuesUnder(pairs, k) ==
  IF pairs = <<>> THEN <<>>
  ELSE (IF Head(pairs)[1] = k THEN <<Head(pairs)[2]>> ELSE <<>>)
       \o ValuesUnder(Tail(pairs), k)
BaseValues(k) == ValuesUnder(client.baseUrl.rawQuery, k)

OneIf(cond, v) == IF cond THEN <<v>> ELSE <<>>

\* the places of the members of object o that speak for the field tagged k:
\* those whose key is k up to letter case and whose value is not null
Speaking(o, k) ==
  {i \in 1..Len(o) : foldName(o[i][1]) = foldName(k) /\ o[i][2].t # "null"}

Has(o, k) == Speaking(o, k) # {}

\* the value object o gives the field tagged k: the last speaking member's
Said(o, k) ==
  o[CHOOSE i \in Speaking(o, k) : \A j \in Speaking(o, k) : j <= i][2]

\* Prediction p holds what the JSON value j says, and the zero value of a
\* field that j leaves out
Holds(p, j) ==
  IF j.t = "null" THEN p = ZeroPrediction
  ELSE /\ j.t = "obj"
       /\ p.Name = (IF Has(j.f, nameKey) THEN Said(j.f, nameKey).s ELSE "")
       /\ p.Age = (IF Has(j.f, ageKey) THEN Said(j.f, ageKey).n ELSE 0)
       /\ p.Count = (IF Has(j.f, countKey) THEN Said(j.f, countKey).n ELSE 0)
       /\ p.Country =
            (IF Has(j.f, countryIdKey) THEN Said(j.f, countryIdKey).s ELSE "")

\* C1: a returned RateLimit is non-nil exactly when a response was received,
\* whatever its status, headers and body.
RateLimitIffResponse ==
  \A c \in Callers :
    Returned(c) => (ret[c].rateLimit.kind = "ptr" <=> GotResponse(c))

RateLimitOnBareErrorResponse ==
  \E c \in Callers :
    /\ Returned(c) /\ GotResponse(c)
    /\ resp[c].status = 401 /\ resp[c].header = NoHeaders
    /\ resp[c].body = JInvalid
    /\ ret[c].rateLimit.kind = "ptr"

ResultXorError(c) ==
  \/ ret[c].result.kind = "ptr" /\ ret[c].err.kind = "nil"
  \/ ret[c].result.kind = "nil" /\ ret[c].err.kind # "nil"

\* C2: every call returns, with either a result and no error or an error and
\* no result, the former only after a 200 whose body was read.
EveryCallReturnsResultXorError ==
  \A c \in Callers :
    pc[c] \notin {"idle", "waiting", "reading"} =>
      /\ Returned(c)
      /\ ResultXorError(c)
      /\ ret[c].result.kind = "ptr" =>
           GotResponse(c) /\ resp[c].status = StatusOK /\ resp[c].readOk

\* C2 for the calls that do return
ReturnedResultXorError ==
  \A c \in Callers :
    Returned(c) =>
      /\ ResultXorError(c)
      /\ ret[c].result.kind = "ptr" =>
           GotResponse(c) /\ resp[c].status = StatusOK /\ resp[c].readOk

\* C3: on success the result is what the body says, element by element and
\* in the body's order, and the RateLimit is the three headers as sent.
SuccessIsTheDecodedResponse ==
  \A c \in Callers :
    (Returned(c) /\ ret[c].err.kind = "nil") =>
      /\ ret[c].rateLimit = Ptr(HeadersAsSent(resp[c].header))
      /\ call[c].op \in SingleOps => Holds(ret[c].result.val, resp[c].body)
      /\ call[c].op \in BatchOps =>
           LET j == resp[c].body
               ps == ret[c].result.val
           IN  IF j.t = "null" THEN ps = <<>>
               ELSE /\ j.t = "arr"
                    /\ Len(ps) = Len(j.a)
                    /\ \A i \in 1..Len(j.a) : Holds(ps[i], j.a[i])

BatchSuccessOfThree ==
  \E c \in Callers :
    /\ Returned(c) /\ ret[c].err.kind = "nil"
    /\ call[c].op = "BatchPredict"
    /\ resp[c].body = JArr(<<Jane, Michael, JNull>>)
    /\ resp[c].header = TestHeaders
    /\ Len(ret[c].result.val) = 3

\* C4 as claimed: the request of a single-name call goes to the base URL and
\* its name, country_id and apikey parameters are exactly the call's.
SingleRequestCarriesOnlyItsOwnParameters ==
  \A c \in Callers :
    (call[c].op \in SingleOps /\ Issued(c)) =>
      LET r == sent[c][1]
      IN  /\ r.endpoint = client.baseUrl.endpoint
          /\ r.query["name"] = <<call[c].name>>
          /\ r.query["country_id"] = OneIf(call[c].country # "", call[c].country)
          /\ r.query["apikey"] = OneIf(client.apiKey # "", client.apiKey)

\* C4: the request of a single-name call goes to the base URL, keeps the
\* parameters of the base URL's own query string and adds to them the name,
\* the country_id when the country is non-empty and the apikey when the
\* client's key is non-empty, and nothing else.
SingleRequestAddsItsParameters ==
  \A c \in Callers :
    (call[c].op \in SingleOps /\ Issued(c)) =>
      LET r == sent[c][1]
      IN  /\ r.endpoint = client.baseUrl.endpoint
          /\ r.query["name"] = BaseValues("name") \o <<call[c].name>>
          /\ r.query["country_id"] =
               BaseValues("country_id")
               \o OneIf(call[c].country # "", call[c].country)
          /\ r.query["apikey"] =
               BaseValues("apikey") \o OneIf(client.apiKey # "", client.apiKey)
          /\ r.query["name[]"] = BaseValues("name[]")

SingleRequestOverBaseQuery ==
  \E c \in Callers :
    /\ call[c].op = "Predict" /\ Issued(c)
    /\ call[c].name = ""
    /\ client.baseUrl = ServerUrlWithCountry
    /\ client.apiKey = "test-key"
    /\ sent[c][1].query["country_id"] = <<"SE">>
    /\ sent[c][1].query["name"] = <<"">>

\* C5 as claimed: the request of a batch call carries exactly the input names
\* as name[] parameters, in order, one country_id and the apikey if configured.
BatchRequestCarriesOnlyItsOwnParameters ==
  \A c \in Callers :
    (call[c].op \in BatchOps /\ Issued(c)) =>
      LET r == sent[c][1]
      IN  /\ r.query["name[]"] = call[c].names
          /\ r.query["country_id"] = <<call[c].country>>
          /\ r.query["apikey"] = OneIf(client.apiKey # "", client.apiKey)

\* C5: the request of a batch call keeps the parameters of the base URL's own
\* query string and adds to them one name[] per input name in input order, a
\* country_id even for an empty country and the apikey when the client's key
\* is non-empty; a call that got past the URL has issued its request, for an
\* empty input as for any other.
BatchRequestAddsItsParameters ==
  \A c \in Callers :
    call[c].op \in BatchOps =>
      /\ pc[c] \in {"waiting", "reading", "returned"} => Len(sent[c]) = 1
      /\ Issued(c) =>
           LET r == sent[c][1]
           IN  /\ r.endpoint = client.baseUrl.endpoint
               /\ r.query["name[]"] = BaseValues("name[]") \o call[c].names
               /\ r.query["country_id"] =
                    BaseValues("country_id") \o <<call[c].country>>
               /\ r.query["apikey"] =
                    BaseValues("apikey")
                    \o OneIf(client.apiKey # "", client.apiKey)
               /\ r.query["name"] = BaseValues("name")

EmptyBatchRequestIssued ==
  \E c \in Callers :
    /\ call[c].op = "BatchPredict" /\ call[c].names = <<>>
    /\ pc[c] = "waiting" /\ Len(sent[c]) = 1
    /\ client.baseUrl = ServerUrlWithNames
    /\ sent[c][1].query["name[]"] = <<"zed">>
    /\ sent[c][1].query["country_id"] = <<"">>

\* C6: every request goes out through the transport handle the client holds,
\* so under the timeout configured on that handle.
RequestsUseTheClientsTransport ==
  \A c \in Callers :
    \A i \in 1..Len(sent[c]) : sent[c][i].via.timeout = client.http.timeout

\* C7: a call on a client made with a base URL that does not parse returns a
\* nil result and a non-nil error.
MalformedUrlSurfacesAsError ==
  \A c \in Callers :
    (~client.baseUrl.wellFormed /\ pc[c] # "idle") =>
      /\ pc[c] \in {"waiting", "reading", "returned"}
      /\ Returned(c) => (ret[c].result.kind = "nil" /\ ret[c].err.kind # "nil")

\* the first error a finished call met after its request went out
FirstError(c) ==
  IF ~GotResponse(c) THEN "transport"
  ELSE IF ~resp[c].readOk THEN "read"
  ELSE ret[c].err.kind

\* C8: a call issues exactly one GET and then returns, and what it returns
\* is the first error it met.
OneRequestThenReturn ==
  \A c \in Callers :
    pc[c] # "idle" =>
      /\ Len(sent[c]) = 1
      /\ pc[c] \in {"waiting", "reading", "returned"}
      /\ Returned(c) => ret[c].err.kind = FirstError(c)

\* C8 for the calls that return: what they return is the first error they met
ReturnedFirstError ==
  \A c \in Callers : Returned(c) => ret[c].err.kind = FirstError(c)

\* C8 without the errors: never more than one GET per call
AtMostOneRequest ==
  \A c \in Callers : Len(sent[c]) <= 1

\* C9: no call changes the client, and calls with the same arguments and the
\* same answer return the same values, whoever called in between: what a call
\* holds while it waits for the body is its own.
ClientIsNeverChanged ==
  /\ client = constructed
  /\ \A c1, c2 \in Callers :
       (Returned(c1) /\ Returned(c2) /\ call[c1] = call[c2]
        /\ resp[c1] = resp[c2]) => ret[c1] = ret[c2]

TwoCallersSameAnswer ==
  \E c1, c2 \in Callers :
    /\ c1 # c2
    /\ Returned(c1) /\ Returned(c2)
    /\ call[c1] = call[c2] /\ call[c1].op = "Predict"
    /\ resp[c1] = resp[c2] /\ resp[c1].kind = "response"
    /\ ret[c1].result = Ptr([Name |-> "michael", Age |-> 70, Count |-> 875,
                             Country |-> "US"])

\* the error a non-200 body spells
ErrorSpelledBy(j) ==
  IF j.t = "null" THEN ServiceErr("")
  ELSE IF j.t # "obj" THEN DecodeErr
  ELSE IF \E i \in Speaking(j.f, errorKey) : j.f[i][2].t # "str" THEN DecodeErr
  ELSE IF ~Has(j.f, errorKey) THEN ServiceErr("")
  ELSE ServiceErr(Said(j.f, errorKey).s)

\* C10: after a response that is not a 200 the error is decided by the body
\* alone, the result is nil and the RateLimit is the headers'.
NonOKClassifiedByBody ==
  \A c \in Callers :
    (Returned(c) /\ GotResponse(c) /\ resp[c].status # StatusOK) =>
      /\ ret[c].err = ErrorSpelledBy(resp[c].body)
      /\ ret[c].result = Nil
      /\ ret[c].rateLimit = Ptr(HeadersAsSent(resp[c].header))

ServiceErrorReturned ==
  \E c \in Callers :
    /\ Returned(c) /\ GotResponse(c)
    /\ resp[c].status = 429 /\ ~resp[c].readOk
    /\ ret[c].err = ServiceErr("Invalid API key")

=============================================================================
